---------------------------- MODULE Spec2Model ----------------------------
(***************************************************************************)
(* A model of psola/core.py: the tier encoders (write_duration_tier,       *)
(* write_pitch_tier), the two transformation stages (time_stretch,         *)
(* pitch_shift), the orchestrator (vocode) with its scoped temporary       *)
(* directory, and the batch driver (from_files_to_files).                  *)
(*                                                                         *)
(* Numbers.  Times (seconds) and rates are fixed-point integers in units   *)
(* of 1e-7, one decimal digit finer than the six digits the ':.6f' format  *)
(* keeps, so that formatting is a real rounding step.  Frequencies are     *)
(* whole Hz.  The input sets hold no value that lies exactly half way      *)
(* between two six-digit numbers, so the rounding direction of a tie never *)
(* matters.                                                                *)
(***************************************************************************)
EXTENDS Integers, Sequences, FiniteSets, TLC

VARIABLES
    inputs,      \* per invocation: the arguments of vocode
    pc,          \* per invocation: the place in vocode / its callees
    tmpdir,      \* per invocation: the directory tempfile handed out
    audio,       \* per invocation: the local variable `audio` of vocode
    rates_in,    \* per invocation: the rates time_stretch obtained, before the floor
    error,       \* per invocation: the exception in flight or raised ("" = none)
    result,      \* per invocation: the value vocode returned
    tier,        \* per invocation: the tier Data.read returned (duration_tier, pitch_tier)
    calls,       \* per invocation: the engine operations requested, in order
    dirs,        \* the file system: the temporary directories that exist
    files,       \* the file system: the files inside those directories
    batch_args,  \* from_files_to_files: its arguments
    batch_pc,    \* from_files_to_files: its place
    iterator,    \* from_files_to_files: the items zip has still to yield
    saved,       \* from_files_to_files: the items vocoded and saved, in order
    batch_error  \* from_files_to_files: the exception that ended it ("" = none)

vars == <<inputs, pc, tmpdir, audio, rates_in, error, result, tier, calls, dirs,
          files, batch_args, batch_pc, iterator, saved, batch_error>>

vocode_vars == <<inputs, pc, tmpdir, audio, rates_in, error, result, tier,
                 calls, dirs, files>>

batch_vars == <<batch_args, batch_pc, iterator, saved, batch_error>>

-----------------------------------------------------------------------------
(* Units and program constants *)

\* one second, and the rate 1.0, in fixed-point units of 1e-7
One == 10000000

\* eps = 1e-6, the default of write_duration_tier
Eps == 10

\* the floor .0625 of time_stretch
RateFloor == 625000

FMIN == 40

FMAX == 550

\* np.nan in a pitch contour (frequencies are >= 0)
NaN == -1

-----------------------------------------------------------------------------
(* Bounds of the model *)

MaxPhonemes == 2

MaxFrames == 3

MaxFiles == 3

\* the vocode invocations that may run at the same time
MaxInvocations == 2

Procs == 1..MaxInvocations

\* the directory names mkdtemp draws from
DirNames == {"tmp_a", "tmp_b", "tmp_c"}

\* phoneme boundaries: 0, 1.3 microseconds, 1 s and 2 s
TimePoints == {0, 13, 10000000, 20000000}

\* per-phoneme rates: 0.03125, 0.8 and 1.5
RateValues == {312500, 8000000, 15000000}

\* constant stretch factors
StretchFactors == {2, 3, 32}

\* frames of a pitch contour: unvoiced, 110 Hz, 220 Hz
FrameValues == {NaN, 110, 220}

\* the lengths (in samples) of what the engine resynthesizes
ResynthSamples == {4, 12}

-----------------------------------------------------------------------------
(* Small helpers *)

Min(a, b) == IF a <= b THEN a ELSE b

Max(a, b) == IF a >= b THEN a ELSE b

Last(s) == s[Len(s)]

\* all sequences over S of length lo..hi
SeqsOf(S, lo, hi) == UNION {[1..n -> S] : n \in lo..hi}

IsNonDecreasing(s) == \A i \in 1..(Len(s) - 1) : s[i] <= s[i + 1]

\* Python's f'{x:.6f}': x rounded to the nearest multiple of 1e-6
Fmt6(x) ==
    LET r == x % 10
    IN  IF r >= 5 THEN x - r + 10 ELSE x - r

-----------------------------------------------------------------------------
(* Values *)

\* an absent optional argument (None) and a present one
None == [present |-> FALSE, value |-> <<>>]

Some(v) == [present |-> TRUE, value |-> v]

\* an absent number (constant_stretch=None)
NoFactor == [present |-> FALSE, value |-> 0]

\* a waveform: its length in samples and where it came from
Audio(n, origin) == [samples |-> n, origin |-> origin]

NoAudio == Audio(0, "none")

\* float(len(audio)) / sample_rate, in time units
Duration(a, sample_rate) == (a.samples * One) \div sample_rate

\* pypar.Alignment: its phonemes, each with start() and end(); the phonemes
\* are contiguous, so an alignment is given by its boundaries
AlignmentOf(b) ==
    [i \in 1..(Len(b) - 1) |-> [start |-> b[i], end |-> b[i + 1]]]

\* alignment.end()
AlignmentEnd(phonemes) == Last(phonemes).end

-----------------------------------------------------------------------------
(* Tier encoders *)

\* DurationPoints with the sign of eps slipped at the end of a segment
DurationPoints_EndPlusEps(times, rates, eps) ==
    LET n == Min(Len(times) - 1, Len(rates))
    IN  [j \in 1..(2 * n + 2) |->
            IF j = 1
            THEN [index |-> 1, number |-> 0, value |-> One]
            ELSE IF j = 2 * n + 2
            THEN [index |-> 2 * Len(times),
                  number |-> Fmt6(Last(times)),
                  value |-> One]
            ELSE LET i == (j \div 2) - 1
                 IN  IF j % 2 = 0
                     THEN [index |-> 2 * i + 2,
                           number |-> Fmt6(times[i + 1] + eps),
                           value |-> Fmt6(rates[i + 1])]
                     ELSE [index |-> 2 * i + 3,
                           number |-> Fmt6(times[i + 2] + eps),
                           value |-> Fmt6(rates[i + 1])]]

\* the control points write_duration_tier lists: zip(times[:-1], times[1:],
\* rates) stops at the shortest of its arguments
DurationPoints(times, rates, eps) ==
    LET n == Min(Len(times) - 1, Len(rates))
    IN  [j \in 1..(2 * n + 2) |->
            IF j = 1
            THEN [index |-> 1, number |-> 0, value |-> One]
            ELSE IF j = 2 * n + 2
            THEN [index |-> 2 * Len(times),
                  number |-> Fmt6(Last(times)),
                  value |-> One]
            ELSE LET i == (j \div 2) - 1
                 IN  IF j % 2 = 0
                     THEN [index |-> 2 * i + 2,
                           number |-> Fmt6(times[i + 1] + eps),
                           value |-> Fmt6(rates[i + 1])]
                     ELSE [index |-> 2 * i + 3,
                           number |-> Fmt6(times[i + 2] - eps),
                           value |-> Fmt6(rates[i + 1])]]

\* the duration tier write_duration_tier writes
write_duration_tier(times, rates, eps) ==
    [xmin |-> 0,
     xmax |-> Fmt6(Last(times)),
     size |-> 2 * Len(times),
     points |-> DurationPoints(times, rates, eps)]

\* np.isnan
isnan(x) == x = NaN

\* np.linspace(0., duration, frames)
linspace(duration, frames) ==
    [i \in 1..frames |->
        IF frames = 1 THEN 0 ELSE ((i - 1) * duration) \div (frames - 1)]

\* the points write_pitch_tier lists: the frames that are not NaN
PitchPoints(pitch, duration) ==
    LET times == linspace(duration, Len(pitch))
        frames == [i \in 1..Len(pitch) |->
                      [number |-> times[i], value |-> pitch[i]]]
        voiced(pt) == ~isnan(pt.value)
    IN  SelectSeq(frames, voiced)

\* the pitch tier write_pitch_tier writes
write_pitch_tier(pitch, duration) ==
    [xmin |-> 0,
     xmax |-> duration,
     size |-> Cardinality({i \in 1..Len(pitch) : ~isnan(pitch[i])}),
     points |-> PitchPoints(pitch, duration)]

\* pitch_shift: pitch = np.copy(pitch); pitch[np.isnan(pitch)] = 0.
NanToZero(pitch) ==
    [i \in 1..Len(pitch) |-> IF isnan(pitch[i]) THEN 0 ELSE pitch[i]]

\* time_stretch: rates[rates < .0625] = .0625
ClampRates(rates) ==
    [i \in 1..Len(rates) |-> IF rates[i] < RateFloor THEN RateFloor ELSE rates[i]]

-----------------------------------------------------------------------------
(* The file system and the engine *)

NoTier == [xmin |-> 0, xmax |-> 0, size |-> 0, points |-> <<>>]

File(d, name, w, a, t) ==
    [dir |-> d, name |-> name, writer |-> w, audio |-> a, tier |-> t]

\* open(filename, 'w') / soundfile.write: the file is created or replaced
WriteFile(fs, f) ==
    {g \in fs : ~(g.dir = f.dir /\ g.name = f.name)} \cup {f}

Exists(fs, d, name) == \E g \in fs : g.dir = d /\ g.name = name

ReadFile(fs, d, name) == CHOOSE g \in fs : g.dir = d /\ g.name = name

\* one request to the engine, as a fake engine would record it
Call(op, a, t) == [op |-> op, audio |-> a, tier |-> t]

-----------------------------------------------------------------------------
(* vocode and its stages, for one invocation p *)

\* vocode: constant_stretch is not None or both alignments are Alignments
StretchRequested(inp) ==
    \/ inp.constant_stretch.present
    \/ (inp.source_alignment.present /\ inp.target_alignment.present)

\* ShiftRequested with the test on target_pitch dropped
ShiftRequested_Always(inp) == TRUE

\* vocode: target_pitch is not None
ShiftRequested(inp) == inp.target_pitch.present

\* time_stretch: the boundary times of the tier
StretchTimes(inp, a) ==
    IF inp.constant_stretch.present
    THEN <<0, Duration(a, inp.sample_rate)>>
    ELSE LET ph == inp.source_alignment.value
         IN  [i \in 1..(Len(ph) + 1) |->
                 IF i <= Len(ph) THEN ph[i].start ELSE AlignmentEnd(ph)]

\* time_stretch: the rates it starts from, 1. / constant_stretch or what
\* pypar.compare.per_phoneme_rate returned (raw)
StretchRatesIn(inp, raw) ==
    IF inp.constant_stretch.present
    THEN <<One \div inp.constant_stretch.value>>
    ELSE raw

\* time_stretch: the rates handed to write_duration_tier
StretchRates(inp, raw) ==
    IF inp.constant_stretch.present
    THEN StretchRatesIn(inp, raw)
    ELSE ClampRates(raw)

\* ShiftDuration taken from the audio vocode was called with
ShiftDuration_Original(inp, a) == Duration(inp.audio, inp.sample_rate)

\* pitch_shift: the duration handed to write_pitch_tier
ShiftDuration(inp, a) == Duration(a, inp.sample_rate)

\* MkdtempNames without the check that the directory is new
MkdtempNames_Any(names, existing) == names

\* tempfile.TemporaryDirectory(): the names mkdtemp may hand out, those of no
\* existing directory
MkdtempNames(names, existing) == names \ existing

\* Cleanup that runs on return only
Cleanup_OnReturnOnly(existing, d, e) == IF e = "" THEN existing \ {d} ELSE existing

\* leaving the with block, with or without an exception (e): the directory is
\* removed, and so are the files in it
Cleanup(existing, d, e) == existing \ {d}

\* how a stage step ends when it raises: the exception leaves the with block
Raise(p, e) ==
    /\ error' = [error EXCEPT ![p] = e]
    /\ pc' = [pc EXCEPT ![p] = "exit"]

\* get_manipulation, then praat's "To Manipulation": the engine refuses a band
\* with fmin >= fmax, and may refuse any audio (no usable pitch track)
EngineAccepts(inp, ok) == ok /\ inp.fmin < inp.fmax

\* with tempfile.TemporaryDirectory() as tmpdir:
Enter(p) ==
    /\ pc[p] = "called"
    /\ \E d \in MkdtempNames(DirNames, dirs) :
        /\ tmpdir' = [tmpdir EXCEPT ![p] = d]
        /\ dirs' = dirs \cup {d}
    /\ pc' = [pc EXCEPT ![p] = "stretch"]
    /\ UNCHANGED <<inputs, audio, rates_in, error, result, tier, calls, files,
                   batch_vars>>

\* vocode, the stretch condition is false
SkipStretch(p) ==
    /\ pc[p] = "stretch"
    /\ ~StretchRequested(inputs[p])
    /\ pc' = [pc EXCEPT ![p] = "shift"]
    /\ UNCHANGED <<inputs, tmpdir, audio, rates_in, error, result, tier, calls,
                   dirs, files, batch_vars>>

\* time_stretch up to write_duration_tier; raw is what per_phoneme_rate
\* returned (not read in constant mode)
StretchTier(p) ==
    /\ pc[p] = "stretch"
    /\ StretchRequested(inputs[p])
    /\ \E raw \in IF inputs[p].constant_stretch.present
                  THEN {<<>>}
                  ELSE SeqsOf(RateValues, 0, MaxPhonemes + 1) :
        LET times == StretchTimes(inputs[p], audio[p])
            rates == StretchRates(inputs[p], raw)
            written == write_duration_tier(times, rates, Eps)
        IN  /\ rates_in' = [rates_in EXCEPT ![p] = StretchRatesIn(inputs[p], raw)]
            /\ \/ /\ tmpdir[p] \in dirs
                  /\ files' = WriteFile(files,
                         File(tmpdir[p], "duration.txt", p, NoAudio, written))
                  /\ pc' = [pc EXCEPT ![p] = "ts_open"]
                  /\ UNCHANGED error
               \/ /\ Raise(p, "OSError")
                  /\ UNCHANGED files
    /\ UNCHANGED <<inputs, tmpdir, audio, result, tier, calls, dirs, batch_vars>>

\* a stage from Data.read to get_manipulation: the tier is read back, the
\* audio is written to audio.wav and the engine opens a manipulation on it
OpenStage(p, at, tier_file, then) ==
    /\ pc[p] = at
    /\ \/ /\ tmpdir[p] \in dirs
          /\ Exists(files, tmpdir[p], tier_file)
          /\ tier' = [tier EXCEPT ![p] = ReadFile(files, tmpdir[p], tier_file).tier]
          /\ files' = WriteFile(files,
                 File(tmpdir[p], "audio.wav", p, audio[p], NoTier))
          /\ \E ok \in BOOLEAN :
                IF EngineAccepts(inputs[p], ok)
                THEN /\ calls' = [calls EXCEPT ![p] = Append(@,
                            Call("To Manipulation",
                                 ReadFile(files', tmpdir[p], "audio.wav").audio,
                                 NoTier))]
                     /\ pc' = [pc EXCEPT ![p] = then]
                     /\ UNCHANGED error
                ELSE /\ Raise(p, "PraatError")
                     /\ UNCHANGED calls
       \/ /\ Raise(p, "OSError")
          /\ UNCHANGED <<files, tier, calls>>
    /\ UNCHANGED <<inputs, tmpdir, audio, rates_in, result, dirs, batch_vars>>

\* a stage from the tier replacement to the resynthesis, which becomes the
\* value of `audio`
ResynthStage(p, at, replace_op, origin, then) ==
    /\ pc[p] = at
    /\ \/ \E n \in ResynthSamples :
            /\ calls' = [calls EXCEPT ![p] =
                   @ \o <<Call(replace_op, NoAudio, tier[p]),
                          Call("Get resynthesis (overlap-add)",
                               Audio(n, origin), NoTier)>>]
            /\ audio' = [audio EXCEPT ![p] = Audio(n, origin)]
            /\ pc' = [pc EXCEPT ![p] = then]
            /\ UNCHANGED error
       \/ /\ Raise(p, "PraatError")
          /\ UNCHANGED <<calls, audio>>
    /\ UNCHANGED <<inputs, tmpdir, rates_in, result, tier, dirs, files,
                   batch_vars>>

StretchOpen(p) == OpenStage(p, "ts_open", "duration.txt", "ts_resynth")

StretchResynth(p) ==
    ResynthStage(p, "ts_resynth", "Replace duration tier",
                 "stretched", "shift")

\* vocode, target_pitch is None: return audio
SkipShift(p) ==
    /\ pc[p] = "shift"
    /\ ~ShiftRequested(inputs[p])
    /\ pc' = [pc EXCEPT ![p] = "exit"]
    /\ UNCHANGED <<inputs, tmpdir, audio, rates_in, error, result, tier, calls,
                   dirs, files, batch_vars>>

\* pitch_shift up to write_pitch_tier
ShiftTier(p) ==
    /\ pc[p] = "shift"
    /\ ShiftRequested(inputs[p])
    /\ LET pitch == NanToZero(inputs[p].target_pitch.value)
           written == write_pitch_tier(pitch, ShiftDuration(inputs[p], audio[p]))
       IN  \/ /\ tmpdir[p] \in dirs
              /\ files' = WriteFile(files,
                     File(tmpdir[p], "pitch.txt", p, NoAudio, written))
              /\ pc' = [pc EXCEPT ![p] = "ps_open"]
              /\ UNCHANGED error
           \/ /\ Raise(p, "OSError")
              /\ UNCHANGED files
    /\ UNCHANGED <<inputs, tmpdir, audio, rates_in, result, tier, calls, dirs,
                   batch_vars>>

ShiftOpen(p) == OpenStage(p, "ps_open", "pitch.txt", "ps_resynth")

ShiftResynth(p) ==
    ResynthStage(p, "ps_resynth", "Replace pitch tier",
                 "shifted", "exit")

\* leaving the with block, by return or by exception: the directory is
\* removed, then the caller gets the audio or the exception
Exit(p) ==
    /\ pc[p] = "exit"
    /\ dirs' = Cleanup(dirs, tmpdir[p], error[p])
    /\ files' = {f \in files : f.dir \in dirs'}
    /\ result' = [result EXCEPT ![p] = IF error[p] = "" THEN audio[p] ELSE NoAudio]
    /\ pc' = [pc EXCEPT ![p] = "done"]
    /\ UNCHANGED <<inputs, tmpdir, audio, rates_in, error, tier, calls,
                   batch_vars>>

-----------------------------------------------------------------------------
(* The arguments of vocode *)

Inputs(a, sr, src, tgt, pitch, cs, fmin, fmax) ==
    [audio |-> a, sample_rate |-> sr, source_alignment |-> src,
     target_alignment |-> tgt, target_pitch |-> pitch,
     constant_stretch |-> cs, fmin |-> fmin, fmax |-> fmax]

\* the recorded utterance: 8 samples at 4 Hz, two seconds
InputAudio == Audio(8, "input")

SampleRate == 4

\* alignments of 1..MaxPhonemes phonemes with non-decreasing boundaries
Alignments ==
    {AlignmentOf(b) : b \in {c \in SeqsOf(TimePoints, 2, MaxPhonemes + 1) :
                                IsNonDecreasing(c)}}

\* the alignment [(A, 0, 1.0), (B, 1.0, 2.0)]
TwoPhonemes == AlignmentOf(<<0, One, 2 * One>>)

Contours == SeqsOf(FrameValues, 0, MaxFrames)

\* a contour with a gap
GapContour == <<220, NaN, 110>>

OptionalFactors == {NoFactor} \cup {Some(f) : f \in StretchFactors}

\* inputs that vary the stretch request, with a fixed pitch request or none
StretchInputs ==
    {Inputs(InputAudio, SampleRate, src, tgt, pitch, cs, FMIN, FMAX) :
        src \in {None} \cup {Some(al) : al \in Alignments},
        tgt \in {None, Some(TwoPhonemes)},
        pitch \in {None, Some(GapContour)},
        cs \in OptionalFactors}

\* inputs that vary the pitch request, with a fixed stretch request or none
ShiftInputs ==
    {Inputs(InputAudio, SampleRate, None, None, pitch, cs, FMIN, fmax) :
        pitch \in {None} \cup {Some(c) : c \in Contours},
        cs \in {NoFactor, Some(2)},
        fmax \in {FMAX, FMIN}}

\* the inputs of invocations that run side by side
SharedInputs ==
    {Inputs(InputAudio, SampleRate, None, None, None, Some(2), FMIN, FMAX),
     Inputs(InputAudio, SampleRate, None, None, Some(GapContour), NoFactor,
            FMIN, FMAX)}

NoInputs == Inputs(InputAudio, SampleRate, None, None, None, NoFactor, FMIN, FMAX)

\* the arguments of from_files_to_files
BatchArgs(audio_files, output_files, src, tgt, pitch, cs) ==
    [audio_files |-> audio_files, output_files |-> output_files,
     source_alignment_files |-> src, target_alignment_files |-> tgt,
     target_pitch_files |-> pitch, constant_stretch |-> cs]

BatchIdle ==
    /\ batch_args = BatchArgs(<<>>, <<>>, None, None, None, NoFactor)
    /\ batch_pc = "absent"
    /\ iterator = <<>>
    /\ saved = <<>>
    /\ batch_error = ""

\* the state when the given invocations have been called with the given inputs
VocodeInit(running, inp) ==
    /\ inputs = inp
    /\ pc = [p \in Procs |-> IF p \in running THEN "called" ELSE "absent"]
    /\ tmpdir = [p \in Procs |-> ""]
    /\ audio = [p \in Procs |-> inp[p].audio]
    /\ rates_in = [p \in Procs |-> <<>>]
    /\ error = [p \in Procs |-> ""]
    /\ result = [p \in Procs |-> NoAudio]
    /\ tier = [p \in Procs |-> NoTier]
    /\ calls = [p \in Procs |-> <<>>]
    /\ dirs = {}
    /\ files = {}

\* one invocation of vocode, over all its inputs
Init ==
    /\ \E i \in StretchInputs \cup ShiftInputs :
          VocodeInit({1}, [p \in Procs |-> IF p = 1 THEN i ELSE NoInputs])
    /\ BatchIdle

Next ==
    \E p \in Procs :
        \/ Enter(p)
        \/ SkipStretch(p)
        \/ StretchTier(p)
        \/ StretchOpen(p)
        \/ StretchResynth(p)
        \/ SkipShift(p)
        \/ ShiftTier(p)
        \/ ShiftOpen(p)
        \/ ShiftResynth(p)
        \/ Exit(p)

Spec == Init /\ [][Next]_vars

\* every invocation running at once
InitShared ==
    /\ \E inp \in [Procs -> SharedInputs] : VocodeInit(Procs, inp)
    /\ BatchIdle

SpecShared == InitShared /\ [][Next]_vars

-----------------------------------------------------------------------------
(* from_files_to_files *)

\* a list of n files; the file at position i is named i
FileList(n) == [i \in 1..n |-> i]

\* None in an expanded list
NoFile == 0

\* if files is None: files = [None] * len(audio_files)
ExpandDefault(list, audio_files) ==
    IF list.present THEN list.value ELSE [i \in 1..Len(audio_files) |-> NoFile]

\* zip(...): as many items as the shortest list has
Zip(a, b, c, d, e) ==
    LET n == Min(Len(a), Min(Len(b), Min(Len(c), Min(Len(d), Len(e)))))
    IN  [i \in 1..n |-> <<a[i], b[i], c[i], d[i], e[i]>>]

\* from_file, then vocode: what the item asks of vocode
ItemInputs(item, cs) ==
    Inputs(InputAudio, SampleRate,
           IF item[3] = NoFile THEN None ELSE Some(TwoPhonemes),
           IF item[4] = NoFile THEN None ELSE Some(TwoPhonemes),
           IF item[5] = NoFile THEN None ELSE Some(GapContour),
           cs, FMIN, FMAX)

\* lines 157-177: the defaults are expanded and the iterator is set up
BatchStart ==
    /\ batch_pc = "called"
    /\ iterator' =
          Zip(batch_args.audio_files,
              batch_args.output_files,
              ExpandDefault(batch_args.source_alignment_files, batch_args.audio_files),
              ExpandDefault(batch_args.target_alignment_files, batch_args.audio_files),
              ExpandDefault(batch_args.target_pitch_files, batch_args.audio_files))
    /\ batch_pc' = "loop"
    /\ UNCHANGED <<batch_args, saved, batch_error, vocode_vars>>

\* one turn of the loop: from_file_to_file on the next item, which saves the
\* vocoded audio or raises
BatchItem ==
    /\ batch_pc = "loop"
    /\ iterator # <<>>
    /\ LET item == Head(iterator)
           inp == ItemInputs(item, batch_args.constant_stretch)
       IN  \/ /\ saved' = Append(saved,
                     [item |-> item,
                      stretched |-> StretchRequested(inp),
                      shifted |-> ShiftRequested(inp)])
              /\ iterator' = Tail(iterator)
              /\ UNCHANGED <<batch_pc, batch_error>>
           \/ /\ batch_error' = "PraatError"
              /\ batch_pc' = "done"
              /\ UNCHANGED <<saved, iterator>>
    /\ UNCHANGED <<batch_args, vocode_vars>>

\* the iterator is exhausted: from_files_to_files returns
BatchReturn ==
    /\ batch_pc = "loop"
    /\ iterator = <<>>
    /\ batch_pc' = "done"
    /\ UNCHANGED <<batch_args, iterator, saved, batch_error, vocode_vars>>

OptionalLists == {None} \cup {Some(FileList(n)) : n \in 0..MaxFiles}

\* a call with as many output files as audio files
InitBatch ==
    /\ VocodeInit({}, [p \in Procs |-> NoInputs])
    /\ \E n \in 0..MaxFiles, src \in OptionalLists, tgt \in OptionalLists,
          pitch \in OptionalLists, cs \in {NoFactor, Some(2)} :
          batch_args = BatchArgs(FileList(n), FileList(n), src, tgt, pitch, cs)
    /\ batch_pc = "called"
    /\ iterator = <<>>
    /\ saved = <<>>
    /\ batch_error = ""

NextBatch == BatchStart \/ BatchItem \/ BatchReturn

SpecBatch == InitBatch /\ [][NextBatch]_vars

-----------------------------------------------------------------------------
(* Vocabulary of the properties *)

\* the files named name that exist and were written by invocation p
FilesOf(p, name) == {f \in files : f.writer = p /\ f.name = name}

\* invocation p holds a temporary directory
Live(p) == pc[p] \notin {"absent", "called", "done"}

\* the boundary times and the rates time_stretch handed to
\* write_duration_tier in invocation p
TimesOf(p) == StretchTimes(inputs[p], inputs[p].audio)

RatesOf(p) == StretchRates(inputs[p], rates_in[p])

\* the engine requests of invocation p with the given name
CallsAt(p, op) == {i \in 1..Len(calls[p]) : calls[p][i].op = op}

-----------------------------------------------------------------------------
(* C1 *)

\* the control points the duration tier must list for the given boundaries
\* and rates, as six-decimal numbers
ExpectedDurationPoints(times, rates) ==
    LET N == Len(times)
    IN  [j \in 1..(2 * N) |->
            IF j = 1 THEN [index |-> 1, number |-> 0, value |-> One]
            ELSE IF j = 2 * N
            THEN [index |-> 2 * N, number |-> Fmt6(times[N]), value |-> One]
            ELSE IF j % 2 = 0
            THEN [index |-> j, number |-> Fmt6(times[j \div 2] + Eps),
                  value |-> Fmt6(rates[j \div 2])]
            ELSE [index |-> j, number |-> Fmt6(times[(j + 1) \div 2] - Eps),
                  value |-> Fmt6(rates[(j - 1) \div 2])]]

\* the points of the example: boundaries [0, 1, 2], rates [1.5, 0.8]
ExamplePoints ==
    <<[index |-> 1, number |-> 0, value |-> 10000000],
      [index |-> 2, number |-> 10, value |-> 15000000],
      [index |-> 3, number |-> 9999990, value |-> 15000000],
      [index |-> 4, number |-> 10000010, value |-> 8000000],
      [index |-> 5, number |-> 19999990, value |-> 8000000],
      [index |-> 6, number |-> 20000000, value |-> 10000000]>>

IsExample(p) ==
    /\ TimesOf(p) = <<0, 10000000, 20000000>>
    /\ RatesOf(p) = <<15000000, 8000000>>

\* C1: for N >= 2 boundaries and N-1 rates, the duration tier written declares
\* 2N points and lists exactly the 2N points (0, 1.0), then (times[i] + eps,
\* rates[i]) and (times[i+1] - eps, rates[i]) per segment, then (times[N-1], 1.0),
\* indexed 1..2N in order; boundaries [0, 1, 2] with rates [1.5, 0.8] give the
\* six points of the example.
C1_DurationTierPoints ==
    \A p \in Procs : \A f \in FilesOf(p, "duration.txt") :
        LET times == TimesOf(p)
            rates == RatesOf(p)
        IN  (Len(times) >= 2 /\ Len(rates) = Len(times) - 1) =>
                /\ f.tier.size = 2 * Len(times)
                /\ f.tier.points = ExpectedDurationPoints(times, rates)
                /\ IsExample(p) => f.tier.points = ExamplePoints

\* the tier of the example has been written
C1_Witness ==
    \E p \in Procs : \E f \in FilesOf(p, "duration.txt") :
        /\ IsExample(p)
        /\ f.tier.size = 6
        /\ Len(f.tier.points) = 6

-----------------------------------------------------------------------------
(* C2 *)

\* C2: every rate r reaching time_stretch, a per-phoneme rate or 1 /
\* constant_stretch, is written into the duration tier as max(r, 0.0625): both
\* points of its segment carry that value.
C2_RateFloor ==
    \A p \in Procs : \A f \in FilesOf(p, "duration.txt") :
        \A i \in 1..Min(Len(TimesOf(p)) - 1, Len(rates_in[p])) :
            /\ 2 * i + 1 <= Len(f.tier.points)
            /\ f.tier.points[2 * i].value = Fmt6(Max(rates_in[p][i], RateFloor))
            /\ f.tier.points[2 * i + 1].value = Fmt6(Max(rates_in[p][i], RateFloor))

-----------------------------------------------------------------------------
(* C3 *)

\* the frames of the caller's contour that are voiced (not NaN)
VoicedFrames(pitch) == {i \in 1..Len(pitch) : pitch[i] # NaN}

\* C3: the pitch tier written for a contour with V voiced frames declares V
\* points and lists V points, one per voiced frame in frame order, with
\* strictly increasing times; no point of frequency 0 stands for a frame that
\* was missing in the caller's contour.
C3_VoicedPointsOnly ==
    \A p \in Procs : \A f \in FilesOf(p, "pitch.txt") :
        LET pitch == inputs[p].target_pitch.value
            V == Cardinality(VoicedFrames(pitch))
            pts == f.tier.points
        IN  /\ f.tier.size = V
            /\ Len(pts) = V
            /\ \A k \in 1..(Len(pts) - 1) : pts[k].number < pts[k + 1].number
            /\ \A k \in 1..Len(pts) : pts[k].value # 0

-----------------------------------------------------------------------------
(* C4 *)

\* vocode(audio, sample_rate) with every optional input absent
PassThrough(inp) ==
    /\ ~inp.source_alignment.present
    /\ ~inp.target_alignment.present
    /\ ~inp.constant_stretch.present
    /\ ~inp.target_pitch.present

\* C4: vocode with no alignment, no constant stretch and no target pitch
\* enters neither stage, writes no tier or audio file, asks nothing of the
\* engine, and returns the input audio unchanged.
C4_PassThrough ==
    \A p \in Procs :
        PassThrough(inputs[p]) =>
            /\ pc[p] \in {"absent", "called", "stretch", "shift", "exit", "done"}
            /\ calls[p] = <<>>
            /\ {f \in files : f.writer = p} = {}
            /\ error[p] = ""
            /\ audio[p] = inputs[p].audio
            /\ pc[p] = "done" => result[p] = inputs[p].audio

\* a call without optional inputs has returned
C4_Witness ==
    \E p \in Procs :
        /\ PassThrough(inputs[p])
        /\ pc[p] = "done"
        /\ result[p] = InputAudio

-----------------------------------------------------------------------------
(* C5 *)

\* both a stretch and a shift are requested
BothRequested(inp) ==
    /\ \/ inp.constant_stretch.present
       \/ inp.source_alignment.present /\ inp.target_alignment.present
    /\ inp.target_pitch.present

\* the shift stage of invocation p has started: its tier is written, or
\* the invocation is past that point
ShiftStarted(p) ==
    \/ FilesOf(p, "pitch.txt") # {}
    \/ pc[p] \in {"ps_open", "ps_resynth"}
    \/ CallsAt(p, "Replace pitch tier") # {}

\* C5: with both stages requested, the stretch stage has resynthesized before
\* the shift stage starts; the shift stage opens its manipulation on the audio
\* the stretch resynthesis returned; and the pitch tier's xmax and frame times
\* are those of len(stretched audio) / sample_rate.
C5_StretchThenShift ==
    \A p \in Procs :
        (BothRequested(inputs[p]) /\ ShiftStarted(p)) =>
            /\ Len(calls[p]) >= 3
            /\ calls[p][1].op = "To Manipulation"
            /\ calls[p][1].audio = inputs[p].audio
            /\ calls[p][2].op = "Replace duration tier"
            /\ calls[p][3].op = "Get resynthesis (overlap-add)"
            /\ LET stretched == calls[p][3].audio
                   D == (stretched.samples * One) \div inputs[p].sample_rate
                   F == Len(inputs[p].target_pitch.value)
               IN  /\ Len(calls[p]) >= 4 =>
                          /\ calls[p][4].op = "To Manipulation"
                          /\ calls[p][4].audio = stretched
                   /\ \A i \in 5..Len(calls[p]) :
                          calls[p][i].op \in {"Replace pitch tier",
                                              "Get resynthesis (overlap-add)"}
                   /\ \A f \in FilesOf(p, "pitch.txt") :
                          /\ f.tier.xmax = D
                          /\ \A k \in 1..Len(f.tier.points) :
                                \E i \in 0..(F - 1) :
                                    f.tier.points[k].number =
                                        IF F = 1 THEN 0 ELSE (i * D) \div (F - 1)
                          /\ (F >= 2 /\ Len(f.tier.points) = F) =>
                                f.tier.points[F].number = D

\* both stages ran, the stretch changed the length of the audio, and the
\* pitch tier is on disk
C5_Witness ==
    \E p \in Procs : \E f \in FilesOf(p, "pitch.txt") :
        /\ BothRequested(inputs[p])
        /\ Len(calls[p]) >= 4
        /\ calls[p][3].audio.samples # inputs[p].audio.samples
        /\ Len(f.tier.points) >= 2

-----------------------------------------------------------------------------
(* C6 *)

\* C6: however concurrent invocations interleave, an invocation has its
\* directory before it writes a file, the directories of invocations live at
\* the same time are pairwise distinct, and every file in a live invocation's
\* directory was written by that invocation, into its own directory.
C6_WorkspaceIsolation ==
    /\ \A p, q \in Procs :
          (p # q /\ Live(p) /\ Live(q)) => tmpdir[p] # tmpdir[q]
    /\ \A p \in Procs : Live(p) => tmpdir[p] \in dirs
    /\ \A f \in files :
          /\ Live(f.writer)
          /\ f.dir = tmpdir[f.writer]
          /\ \A q \in Procs : (Live(q) /\ tmpdir[q] = f.dir) => q = f.writer
    /\ \A p \in Procs : pc[p] = "called" => {f \in files : f.writer = p} = {}

\* two invocations given the same inputs are live at once and each has
\* written a file
C6_Witness ==
    \E p, q \in Procs :
        /\ p # q
        /\ inputs[p] = inputs[q]
        /\ Live(p) /\ Live(q)
        /\ \E f, g \in files : f.writer = p /\ g.writer = q /\ f.name = g.name

-----------------------------------------------------------------------------
(* C7 *)

\* C7: when an invocation leaves vocode, by return or by any failure of a
\* tier write, of opening the manipulation, or of the tier replacement and
\* resynthesis in either stage, its directory and the files in it are gone,
\* and the failure the caller sees is the one that was raised.
C7_CleanupOnExit ==
    [][\A p \in Procs :
          (pc[p] # "done" /\ pc'[p] = "done") =>
              /\ tmpdir[p] \notin dirs'
              /\ \A f \in files' : f.dir # tmpdir[p]
              /\ error'[p] = error[p]
              /\ error[p] = "" => result'[p] = audio[p]]_vars

\* an invocation with fmin >= fmax failed in the engine and has left vocode,
\* its directory removed
C7_Witness ==
    \E p \in Procs :
        /\ pc[p] = "done"
        /\ inputs[p].fmin >= inputs[p].fmax
        /\ error[p] = "PraatError"
        /\ tmpdir[p] # ""
        /\ tmpdir[p] \notin dirs

-----------------------------------------------------------------------------
(* C8 *)

\* a provided list whose length differs from that of the audio list
LengthMismatch(args) ==
    \E list \in {args.source_alignment_files, args.target_alignment_files,
                 args.target_pitch_files} :
        list.present /\ Len(list.value) # Len(args.audio_files)

\* C8: from_files_to_files fails with BatchLengthMismatch when a provided list
\* of source alignments, target alignments or pitch files differs in length
\* from the audio list; it processes no item of such a batch.
C8_BatchLengthMismatch ==
    LengthMismatch(batch_args) =>
        /\ saved = <<>>
        /\ batch_pc = "done" => batch_error = "BatchLengthMismatch"

-----------------------------------------------------------------------------
(* C9 *)

\* a constant factor together with both alignments, or exactly one alignment
\* and no constant factor
InvalidStretch(inp) ==
    \/ /\ inp.constant_stretch.present
       /\ inp.source_alignment.present
       /\ inp.target_alignment.present
    \/ /\ ~inp.constant_stretch.present
       /\ inp.source_alignment.present # inp.target_alignment.present

\* C9: vocode given a constant factor with both alignments, or exactly one
\* alignment and no constant factor, fails with InvalidStretchSpecification:
\* it neither stretches in one of the modes nor goes on without stretching.
C9_InvalidStretchSpecification ==
    \A p \in Procs :
        InvalidStretch(inputs[p]) =>
            \/ pc[p] \in {"absent", "called", "stretch"}
            \/ error[p] = "InvalidStretchSpecification"

-----------------------------------------------------------------------------
(* C10 *)

\* C10: when the boundaries and the rates handed to write_duration_tier do not
\* satisfy boundary count = rate count + 1, time_stretch fails with
\* ShapeMismatch instead of going on, and no tier is written whose declared
\* point count differs from the number of points it lists.
C10_ShapeMismatch ==
    \A p \in Procs :
        /\ \A f \in FilesOf(p, "duration.txt") :
              f.tier.size = Len(f.tier.points)
        /\ (pc[p] \in {"ts_open", "ts_resynth"}
            /\ Len(TimesOf(p)) # Len(RatesOf(p)) + 1) =>
              error[p] = "ShapeMismatch"

-----------------------------------------------------------------------------
(* C11 *)

\* the times of a tier's control points increase strictly in the order in
\* which they are listed
StrictlyIncreasingTimes(points) ==
    \A k \in 1..(Len(points) - 1) : points[k].number < points[k + 1].number

\* C11: for every non-decreasing boundary sequence, zero-length phonemes and
\* segments shorter than 2 microseconds included, with one rate per segment,
\* the control points write_duration_tier lists with eps = 1e-6 have strictly
\* increasing times: 0 < start_0 + eps, start_i + eps < end_i - eps,
\* end_i - eps < start_{i+1} + eps, and end_last - eps < the last boundary.
C11_StrictlyIncreasingTimes ==
    \A p \in Procs : \A f \in FilesOf(p, "duration.txt") :
        (/\ IsNonDecreasing(TimesOf(p))
         /\ TimesOf(p)[1] >= 0
         /\ Len(RatesOf(p)) = Len(TimesOf(p)) - 1) =>
            StrictlyIncreasingTimes(f.tier.points)

=============================================================================
